---- MODULE Spec2Model ----
(***************************************************************************)
(* runtimes/mlflow/setup.py: the packaging script of the mlserver-mlflow   *)
(* runtime.  One run of the script is modelled statement by statement:     *)
(* the module-level bindings (lines 6-8), the keyword arguments of the     *)
(* setup() call evaluated in source order (lines 29-39), the bodies of     *)
(* _load_version (lines 11-19) and _load_description (lines 22-25), and    *)
(* the call of setup() itself.  The filesystem is the input.               *)
(*                                                                         *)
(* Text is a sequence of tokens (Seq(STRING)); a path is text whose        *)
(* separators are "/" tokens.  README.md is a sequence of bytes, the       *)
(* version file a sequence of source lines.                                *)
(***************************************************************************)
EXTENDS Integers, Sequences, FiniteSets, TLC

\* ------------------------------------------------------------ bounds
MaxLines == 2        \* longest version.py, in source lines
MaxReadmeLen == 2    \* longest README.md, in bytes
MaxRuns == 2         \* runs of the script against the same filesystem

\* ------------------------------------------------------------ text and paths
NoExc == "None"

Last(s) == s[Len(s)]

\* str.replace(old, new) on single-token patterns (line 8)
RECURSIVE replace(_, _, _)
replace(s, old, new) ==
    IF s = <<>> THEN <<>>
    ELSE <<IF Head(s) = old THEN new ELSE Head(s)>> \o replace(Tail(s), old, new)

\* os.path.join(a, b) for a relative b (lines 8, 13, 23)
join(a, b) == a \o <<"/">> \o b

\* os.path.dirname(p): everything before the last separator (line 6)
dirname(p) ==
    LET seps == {i \in 1..Len(p) : p[i] = "/"}
    IN  IF seps = {} THEN <<>>
        ELSE SubSeq(p, 1, (CHOOSE i \in seps : \A j \in seps : j <= i) - 1)

\* __file__ of the running script
ScriptFile == <<"/pkg", "/", "setup.py">>

\* line 7
PKG_NAME == <<"mlserver", "-", "mlflow">>

\* ------------------------------------------------------------ mappings (dict)
EmptyMap == [k \in {} |-> <<>>]

Bind(m, k, v) == [x \in DOMAIN m \cup {k} |-> IF x = k THEN v ELSE m[x]]

\* the bindings lines 6-8 make in the script's own namespace
ScriptGlobals ==
    LET root == dirname(ScriptFile)
    IN  [n \in {"ROOT_PATH", "PKG_NAME", "PKG_PATH"} |->
            CASE n = "ROOT_PATH" -> root
              [] n = "PKG_NAME" -> PKG_NAME
              [] OTHER -> join(root, replace(PKG_NAME, "-", "_"))]

\* ------------------------------------------------------------ the inputs
V1 == <<"1.2.3">>
V2 == <<" ", "V1.0", " ">>
OtherRoot == <<"/other">>

Assign(t, v) == [kind |-> "assign", target |-> t, value |-> v, src |-> ""]
Copy(t, s) == [kind |-> "copy", target |-> t, value |-> <<>>, src |-> s]
Garbage == [kind |-> "garbage", target |-> "", value |-> <<>>, src |-> ""]
BadByteLine == [kind |-> "badbyte", target |-> "", value |-> <<>>, src |-> ""]

\* source lines a version.py is made of: assignments of string literals,
\* an assignment of another name, a line that is not Python, and a line
\* holding the byte 0xFF
SourceLines ==
    { Assign("__version__", V1), Assign("__version__", V2), Assign("v", V1),
      Copy("__version__", "v"), Assign("PKG_NAME", <<"evil">>),
      Assign("ROOT_PATH", OtherRoot), Garbage, BadByteLine }

ReadmeBytes == {"a", "CR", "LF", "xFF"}

SeqsUpTo(S, n) == UNION {[1..k -> S] : k \in 0..n}

File(d) == [exists |-> TRUE, data |-> d]
Absent == [exists |-> FALSE, data |-> <<>>]

VersionPath == <<"/pkg", "/", "mlserver", "_", "mlflow", "/", "version.py">>
ReadmePath == <<"/pkg", "/", "README.md">>
OtherReadmePath == <<"/other", "/", "README.md">>
InitPyPath == <<"/pkg", "/", "mlserver", "_", "mlflow", "/", "__init__.py">>

Encodings == {"utf-8", "latin-1"}

\* stat of a path: a path the filesystem does not name does not exist
Lookup(f, p) == IF p \in DOMAIN f THEN f[p] ELSE Absent

VARIABLES
    fs,             \* the filesystem: path -> [exists, data]
    encoding,       \* the locale's preferred encoding, open()'s default
    pc,             \* the statement the run is at
    ns,             \* namespaces: the script's globals and version_module
    version,        \* _load_version's local (lines 12, 17)
    version_path,   \* _load_version's local (line 13)
    readme_path,    \* _load_description's local (line 23)
    handles,        \* file objects made by open(): path -> [closed, pos]
    ret,            \* the value of fp.read() awaiting return (line 25)
    exc,            \* the exception in flight, or NoExc
    raisedIn,       \* the function that raised it
    args,           \* keyword arguments of setup() evaluated so far
    registered,     \* the metadata setup() has received, in call order
    events,         \* what this run has done so far, in order
    outcomes,       \* the result of every finished run
    runs            \* runs started

vars == <<fs, encoding, pc, ns, version, version_path, readme_path, handles,
          ret, exc, raisedIn, args, registered, events, outcomes, runs>>

\* ------------------------------------------------------------ open(), read()
\* faulty variant: a missing file is opened as an empty one
OpenError_Never(f, p) == NoExc

\* open(path) in the default mode "r": a missing file raises
OpenError(f, p) == IF Lookup(f, p).exists THEN NoExc ELSE "FileNotFoundError"

\* faulty variant: the file object of an earlier open() of the path is handed out
\* again
open_cached(p) == IF p \in DOMAIN handles THEN handles[p] ELSE [closed |-> FALSE, pos |-> 0]

\* the file object open() returns: a new one, positioned at the start
open(p) == [closed |-> FALSE, pos |-> 0]

\* faulty variant: no newline translation (newline="")
TranslateNewlines_None(s) == s

\* universal newlines (open()'s default newline=None): "\r\n" and a lone
\* "\r" are both read as "\n"
RECURSIVE TranslateNewlines(_)
TranslateNewlines(s) ==
    IF s = <<>> THEN <<>>
    ELSE IF Head(s) = "CR"
         THEN IF Len(s) > 1 /\ s[2] = "LF"
              THEN <<"LF">> \o TranslateNewlines(Tail(Tail(s)))
              ELSE <<"LF">> \o TranslateNewlines(Tail(s))
         ELSE <<Head(s)>> \o TranslateNewlines(Tail(s))

\* fp.read() on README.md (line 25): the bytes from the position to the
\* end, decoded in the locale's encoding (0xFF is no UTF-8; in latin-1
\* every byte is a character), newlines translated
ReadText(h, data) ==
    LET rest == SubSeq(data, h.pos + 1, Len(data))
    IN  IF h.closed THEN [exc |-> "ValueError", text |-> <<>>]
        ELSE IF encoding = "utf-8" /\ \E i \in 1..Len(rest) : rest[i] = "xFF"
             THEN [exc |-> "UnicodeDecodeError", text |-> <<>>]
             ELSE [exc |-> NoExc, text |-> TranslateNewlines(rest)]

\* fp.read() on version.py (line 16): the source lines from the position
\* to the end, decoded the same way
ReadSource(h, lines) ==
    LET rest == SubSeq(lines, h.pos + 1, Len(lines))
    IN  IF h.closed THEN [exc |-> "ValueError", text |-> <<>>]
        ELSE IF encoding = "utf-8" /\ \E i \in 1..Len(rest) : rest[i].kind = "badbyte"
             THEN [exc |-> "UnicodeDecodeError", text |-> <<>>]
             ELSE [exc |-> NoExc, text |-> rest]

\* faulty variant: close() at the end of the block instead of a with statement:
\* skipped when an exception leaves the block
ExitClose_OnSuccessOnly(h, e) == IF e = NoExc THEN [h EXCEPT !.closed = TRUE] ELSE h

\* the with statement's exit (lines 14, 24): the file is closed whether or
\* not an exception e is leaving the block
ExitClose(h, e) == [h EXCEPT !.closed = TRUE]

\* ------------------------------------------------------------ exec()
\* line 15: version_module = {}
NewVersionModule == EmptyMap

\* faulty variant: exec(fp.read(), globals())
ExecGlobals_Script == "script"

\* line 16: the namespace given to exec as its globals
ExecGlobals == "version_module"

\* the statements of a compiled source, run in order in namespace env; a
\* name that is not bound raises NameError and the statements after it
\* do not run.  A 0xFF line decoded as latin-1 is the expression "y with
\* diaeresis", an unbound name.
RECURSIVE RunLines(_, _, _)
RunLines(lines, i, env) ==
    IF i > Len(lines) THEN [env |-> env, exc |-> NoExc]
    ELSE LET l == lines[i]
         IN  CASE l.kind = "assign" ->
                    RunLines(lines, i + 1, Bind(env, l.target, l.value))
               [] l.kind = "copy" ->
                    IF l.src \in DOMAIN env
                    THEN RunLines(lines, i + 1, Bind(env, l.target, env[l.src]))
                    ELSE [env |-> env, exc |-> "NameError"]
               [] OTHER -> [env |-> env, exc |-> "NameError"]

\* exec(source, globals): __builtins__ is put into globals, the source is
\* compiled as a whole (no statement runs when a line is not Python), and
\* then run
exec(source, g0) ==
    LET g == IF "__builtins__" \in DOMAIN g0 THEN g0
             ELSE Bind(g0, "__builtins__", <<"<module 'builtins'>">>)
    IN  IF \E i \in 1..Len(source) : source[i].kind = "garbage"
        THEN [env |-> g, exc |-> "SyntaxError"]
        ELSE RunLines(source, 1, g)

RECURSIVE StripTokens(_)
StripTokens(s) ==
    IF s # <<>> /\ Head(s) = " " THEN StripTokens(Tail(s))
    ELSE IF s # <<>> /\ Last(s) = " " THEN StripTokens(SubSeq(s, 1, Len(s) - 1))
    ELSE s

\* faulty variant: version_module["__version__"].strip()
VersionLookup_Strip(m) ==
    IF "__version__" \in DOMAIN m
    THEN [exc |-> NoExc, value |-> StripTokens(m["__version__"])]
    ELSE [exc |-> "KeyError", value |-> <<>>]

\* faulty variant: version_module.get("__version__", version)
VersionLookup_Default(m) ==
    [exc |-> NoExc,
     value |-> IF "__version__" \in DOMAIN m THEN m["__version__"] ELSE version]

\* line 17: version_module["__version__"]
VersionLookup(m) ==
    IF "__version__" \in DOMAIN m
    THEN [exc |-> NoExc, value |-> m["__version__"]]
    ELSE [exc |-> "KeyError", value |-> <<>>]

\* ------------------------------------------------------------ setup(...)
\* faulty variant: long_description=_load_description() written before version=
KwOrder_DescriptionFirst ==
    <<"name", "long_description", "version", "packages", "install_requires">>

\* lines 29-37: the keyword arguments that are not literals, in the order
\* Python evaluates them
KwOrder == <<"name", "version", "packages", "install_requires", "long_description">>

\* the first statement of the evaluation of a keyword argument
Entry(kw) ==
    CASE kw = "name" -> "L29"
      [] kw = "version" -> "L12"
      [] kw = "packages" -> "L35"
      [] kw = "install_requires" -> "L36"
      [] OTHER -> "L23"

\* where control goes once keyword argument kw is evaluated: to the next
\* argument, and after the last to the call itself
After(kw) ==
    LET i == CHOOSE j \in 1..Len(KwOrder) : KwOrder[j] = kw
    IN  IF i = Len(KwOrder) THEN "L28" ELSE Entry(KwOrder[i + 1])

\* faulty variant: the two requirements in the other order
InstallRequires_Swapped == << <<"mlflow">>, <<"mlserver">> >>

\* line 36
InstallRequires == << <<"mlserver">>, <<"mlflow">> >>

\* line 35: find_packages() names the directories under the script's
\* directory that hold an __init__.py
PackageDirs == { <<"mlserver", "_", "mlflow">> }
FindPackages(f) ==
    {d \in PackageDirs :
        Lookup(f, join(join(dirname(ScriptFile), d), <<"__init__.py">>)).exists}

\* lines 28-40: what setup() receives
Metadata(a) ==
    [name |-> a["name"],
     version |-> a["version"],
     url |-> <<"https://github.com/SeldonIO/MLServer.git">>,
     author |-> <<"Seldon Technologies Ltd.">>,
     author_email |-> <<"hello@seldon.io">>,
     description |-> <<"MLflow runtime for MLServer">>,
     packages |-> a["packages"],
     install_requires |-> a["install_requires"],
     long_description |-> a["long_description"],
     long_description_content_type |-> <<"text/markdown">>,
     license |-> <<"Apache 2.0">>]

\* ------------------------------------------------------------ initial state
Filesystems ==
    {[p \in {VersionPath, ReadmePath, OtherReadmePath, InitPyPath} |->
        CASE p = VersionPath -> v
          [] p = ReadmePath -> r
          [] p = OtherReadmePath -> File(<<"o">>)
          [] OTHER -> File(<<>>)] :
     v \in {Absent} \cup {File(d) : d \in SeqsUpTo(SourceLines, MaxLines)},
     r \in {Absent} \cup {File(d) : d \in SeqsUpTo(ReadmeBytes, MaxReadmeLen)}}

Init ==
    /\ fs \in Filesystems
    /\ encoding \in Encodings
    /\ pc = "L6"
    /\ ns = [script |-> EmptyMap, version_module |-> EmptyMap]
    /\ version = <<>>
    /\ version_path = <<>>
    /\ readme_path = <<>>
    /\ handles = EmptyMap
    /\ ret = <<>>
    /\ exc = NoExc
    /\ raisedIn = ""
    /\ args = EmptyMap
    /\ registered = <<>>
    /\ events = <<>>
    /\ outcomes = <<>>
    /\ runs = 1

\* ------------------------------------------------------------ the run
\* lines 6-8, and the start of the setup(...) call expression of line 28
ModuleInit ==
    /\ pc = "L6"
    /\ ns' = [ns EXCEPT !.script =
                [n \in DOMAIN ns.script \cup DOMAIN ScriptGlobals |->
                    IF n \in DOMAIN ScriptGlobals THEN ScriptGlobals[n]
                    ELSE ns.script[n]]]
    /\ args' = EmptyMap
    /\ pc' = Entry(KwOrder[1])
    /\ UNCHANGED <<fs, encoding, version, version_path, readme_path, handles,
                   ret, exc, raisedIn, registered, events, outcomes, runs>>

\* line 29: name=PKG_NAME
EvalName ==
    /\ pc = "L29"
    /\ args' = Bind(args, "name", ns.script["PKG_NAME"])
    /\ pc' = After("name")
    /\ UNCHANGED <<fs, encoding, ns, version, version_path, readme_path,
                   handles, ret, exc, raisedIn, registered, events, outcomes, runs>>

\* lines 12-13
LoadVersionEnter ==
    /\ pc = "L12"
    /\ version' = <<>>
    /\ version_path' = join(ns.script["PKG_PATH"], <<"version.py">>)
    /\ pc' = "L14"
    /\ UNCHANGED <<fs, encoding, ns, readme_path, handles, ret, exc, raisedIn,
                   args, registered, events, outcomes, runs>>

\* line 14: open(version_path); a missing file raises out of the function
\* and out of the script
LoadVersionOpen ==
    /\ pc = "L14"
    /\ IF OpenError(fs, version_path) # NoExc
       THEN /\ exc' = OpenError(fs, version_path)
            /\ raisedIn' = "_load_version"
            /\ pc' = "aborted"
            /\ UNCHANGED <<handles, events>>
       ELSE /\ handles' = Bind(handles, version_path, open(version_path))
            /\ events' = Append(events, "open_version")
            /\ pc' = "L16"
            /\ UNCHANGED <<exc, raisedIn>>
    /\ UNCHANGED <<fs, encoding, ns, version, version_path, readme_path, ret,
                   args, registered, outcomes, runs>>

\* lines 15-16: version_module = {}; exec(fp.read(), version_module)
LoadVersionExec ==
    /\ pc = "L16"
    /\ LET h == handles[version_path]
           data == Lookup(fs, version_path).data
           src == ReadSource(h, data)
           ns1 == [ns EXCEPT !.version_module = NewVersionModule]
           r == exec(src.text, ns1[ExecGlobals])
       IN  IF src.exc # NoExc
           THEN /\ ns' = ns1
                /\ exc' = src.exc
                /\ raisedIn' = "_load_version"
                /\ pc' = "L14exit"
                /\ UNCHANGED handles
           ELSE /\ handles' = [handles EXCEPT ![version_path].pos = Len(data)]
                /\ ns' = [ns1 EXCEPT ![ExecGlobals] = r.env]
                /\ exc' = r.exc
                /\ raisedIn' = IF r.exc # NoExc THEN "_load_version" ELSE raisedIn
                /\ pc' = IF r.exc # NoExc THEN "L14exit" ELSE "L17"
    /\ UNCHANGED <<fs, encoding, version, version_path, readme_path, ret, args,
                   registered, events, outcomes, runs>>

\* line 17: version = version_module["__version__"]
LoadVersionLookup ==
    /\ pc = "L17"
    /\ LET l == VersionLookup(ns.version_module)
       IN  /\ exc' = l.exc
           /\ raisedIn' = IF l.exc # NoExc THEN "_load_version" ELSE raisedIn
           /\ version' = IF l.exc # NoExc THEN version ELSE l.value
    /\ pc' = "L14exit"
    /\ UNCHANGED <<fs, encoding, ns, version_path, readme_path, handles, ret,
                   args, registered, events, outcomes, runs>>

\* the end of the with block of line 14
LoadVersionExit ==
    /\ pc = "L14exit"
    /\ handles' = [handles EXCEPT ![version_path] = ExitClose(@, exc)]
    /\ pc' = IF exc # NoExc THEN "aborted" ELSE "L19"
    /\ UNCHANGED <<fs, encoding, ns, version, version_path, readme_path, ret,
                   exc, raisedIn, args, registered, events, outcomes, runs>>

\* line 19 returns into line 30: version=_load_version()
LoadVersionReturn ==
    /\ pc = "L19"
    /\ args' = Bind(args, "version", version)
    /\ events' = Append(events, "ret_version")
    /\ pc' = After("version")
    /\ UNCHANGED <<fs, encoding, ns, version, version_path, readme_path,
                   handles, ret, exc, raisedIn, registered, outcomes, runs>>

\* line 35: packages=find_packages()
EvalPackages ==
    /\ pc = "L35"
    /\ args' = Bind(args, "packages", FindPackages(fs))
    /\ pc' = After("packages")
    /\ UNCHANGED <<fs, encoding, ns, version, version_path, readme_path,
                   handles, ret, exc, raisedIn, registered, events, outcomes, runs>>

\* line 36: install_requires=["mlserver", "mlflow"]
EvalInstallRequires ==
    /\ pc = "L36"
    /\ args' = Bind(args, "install_requires", InstallRequires)
    /\ pc' = After("install_requires")
    /\ UNCHANGED <<fs, encoding, ns, version, version_path, readme_path,
                   handles, ret, exc, raisedIn, registered, events, outcomes, runs>>

\* line 23
LoadDescriptionEnter ==
    /\ pc = "L23"
    /\ readme_path' = join(ns.script["ROOT_PATH"], <<"README.md">>)
    /\ pc' = "L24"
    /\ UNCHANGED <<fs, encoding, ns, version, version_path, handles, ret, exc,
                   raisedIn, args, registered, events, outcomes, runs>>

\* line 24: open(readme_path)
LoadDescriptionOpen ==
    /\ pc = "L24"
    /\ IF OpenError(fs, readme_path) # NoExc
       THEN /\ exc' = OpenError(fs, readme_path)
            /\ raisedIn' = "_load_description"
            /\ pc' = "aborted"
            /\ UNCHANGED <<handles, events>>
       ELSE /\ handles' = Bind(handles, readme_path, open(readme_path))
            /\ events' = Append(events, "open_readme")
            /\ pc' = "L25"
            /\ UNCHANGED <<exc, raisedIn>>
    /\ UNCHANGED <<fs, encoding, ns, version, version_path, readme_path, ret,
                   args, registered, outcomes, runs>>

\* line 25: the operand of return, fp.read()
LoadDescriptionRead ==
    /\ pc = "L25"
    /\ LET data == Lookup(fs, readme_path).data
           r == ReadText(handles[readme_path], data)
       IN  /\ exc' = r.exc
           /\ raisedIn' = IF r.exc # NoExc THEN "_load_description" ELSE raisedIn
           /\ ret' = IF r.exc # NoExc THEN ret ELSE r.text
           /\ handles' = IF r.exc # NoExc THEN handles
                         ELSE [handles EXCEPT ![readme_path].pos = Len(data)]
    /\ pc' = "L24exit"
    /\ UNCHANGED <<fs, encoding, ns, version, version_path, readme_path, args,
                   registered, events, outcomes, runs>>

\* the end of the with block of line 24, and the return into line 37:
\* long_description=_load_description()
LoadDescriptionExit ==
    /\ pc = "L24exit"
    /\ handles' = [handles EXCEPT ![readme_path] = ExitClose(@, exc)]
    /\ IF exc # NoExc
       THEN /\ pc' = "aborted"
            /\ UNCHANGED <<args, events>>
       ELSE /\ args' = Bind(args, "long_description", ret)
            /\ events' = Append(events, "ret_description")
            /\ pc' = After("long_description")
    /\ UNCHANGED <<fs, encoding, ns, version, version_path, readme_path, ret,
                   exc, raisedIn, registered, outcomes, runs>>

\* line 28/40: the call of setup() with the evaluated arguments
CallSetup ==
    /\ pc = "L28"
    /\ registered' = Append(registered, Metadata(args))
    /\ events' = Append(events, "setup")
    /\ pc' = "done"
    /\ UNCHANGED <<fs, encoding, ns, version, version_path, readme_path,
                   handles, ret, exc, raisedIn, args, outcomes, runs>>

\* what a finished run produced: the exception it ended with, or the
\* metadata it registered
Outcome ==
    [exc |-> exc, raisedIn |-> raisedIn,
     meta |-> IF pc = "done" THEN <<Last(registered)>> ELSE <<>>]

\* the script is run again against the same filesystem.  Nothing but the
\* run's own bookkeeping is reset here: what the script reads it has to
\* set itself.
Rerun ==
    /\ pc \in {"done", "aborted"}
    /\ runs < MaxRuns
    /\ outcomes' = Append(outcomes, Outcome)
    /\ runs' = runs + 1
    /\ exc' = NoExc
    /\ raisedIn' = ""
    /\ events' = <<>>
    /\ pc' = "L6"
    /\ UNCHANGED <<fs, encoding, ns, version, version_path, readme_path,
                   handles, ret, args, registered>>

Next ==
    \/ ModuleInit
    \/ EvalName
    \/ LoadVersionEnter
    \/ LoadVersionOpen
    \/ LoadVersionExec
    \/ LoadVersionLookup
    \/ LoadVersionExit
    \/ LoadVersionReturn
    \/ EvalPackages
    \/ EvalInstallRequires
    \/ LoadDescriptionEnter
    \/ LoadDescriptionOpen
    \/ LoadDescriptionRead
    \/ LoadDescriptionExit
    \/ CallSetup
    \/ Rerun

Spec == Init /\ [][Next]_vars

\* ------------------------------------------------------------ the inputs, described
\* These describe the two input files directly; none of them uses the
\* operators the run is modelled with.
InSeq(x, s) == \E i \in 1..Len(s) : s[i] = x

Before(a, b) == \A j \in 1..Len(events) :
    events[j] = b => \E i \in 1..(j - 1) : events[i] = a

VFile == fs[VersionPath]
RFile == fs[ReadmePath]
VLines == VFile.data

Binds(l) == l.kind \in {"assign", "copy"}
Targets(lines) == {lines[i].target : i \in {j \in 1..Len(lines) : Binds(lines[j])}}

\* every line is a Python assignment, in bytes that decode everywhere
ValidSource(lines) == \A i \in 1..Len(lines) : Binds(lines[i])

\* no assignment reads a name that no earlier line has bound
NoUnboundRead(lines) == \A i \in 1..Len(lines) :
    lines[i].kind = "copy" =>
        \E j \in 1..(i - 1) : Binds(lines[j]) /\ lines[j].target = lines[i].src

WellFormed(lines) == ValidSource(lines) /\ NoUnboundRead(lines)

Unbound == <<"<unbound>">>

\* the string a name is bound to after the first i lines, found backwards
\* from the last line that assigns it
RECURSIVE Resolve(_, _, _)
Resolve(lines, name, i) ==
    LET J == {j \in 1..i : Binds(lines[j]) /\ lines[j].target = name}
    IN  IF J = {} THEN Unbound
        ELSE LET j == CHOOSE k \in J : \A m \in J : m <= k
             IN  IF lines[j].kind = "assign" THEN lines[j].value
                 ELSE Resolve(lines, lines[j].src, j - 1)

BoundVersion == Resolve(VLines, "__version__", Len(VLines))

\* t is d with every CR LF pair and every other CR replaced by one LF
NewlinesNormalised(d, t) ==
    LET K == {i \in 1..Len(d) : ~(d[i] = "CR" /\ i < Len(d) /\ d[i + 1] = "LF")}
        idx(k) == CHOOSE i \in K : Cardinality({j \in K : j <= i}) = k
    IN  /\ Len(t) = Cardinality(K)
        /\ \A k \in 1..Len(t) : t[k] = IF d[idx(k)] = "CR" THEN "LF" ELSE d[idx(k)]

Decodes(d) == encoding = "latin-1" \/ ~InSeq("xFF", d)

OpenHandles == {p \in DOMAIN handles : ~handles[p].closed}

\* ------------------------------------------------------------ claims

\* C1: fail-fast, no partial registration.  When the version file or the
\* README is absent, or the version file is not valid Python or binds no
\* __version__, setup() is never called; a run that ends with an error has
\* not called setup(); setup() is called only after both loaders returned,
\* and it is called once per run that succeeded.
C1_FailFast ==
    /\ ( \/ ~VFile.exists
         \/ ~RFile.exists
         \/ ~ValidSource(VLines)
         \/ "__version__" \notin Targets(VLines) ) => registered = <<>> /\ pc # "done"
    /\ pc = "aborted" => exc # NoExc /\ ~InSeq("setup", events)
    /\ InSeq("setup", events) =>
          InSeq("ret_version", events) /\ InSeq("ret_description", events)
    /\ Len(registered) =
          Cardinality({i \in 1..Len(outcomes) : outcomes[i].meta # <<>>})
          + (IF InSeq("setup", events) THEN 1 ELSE 0)

C1_Witness ==
    /\ pc = "aborted"
    /\ InSeq("ret_version", events)
    /\ ~RFile.exists
    /\ raisedIn = "_load_description"

\* C2: when version.py is well-formed and binds __version__ to X,
\* _load_version returns (it does not raise) and returns exactly X, untrimmed,
\* wherever the assignment stands among the other lines.
C2_ReturnsBoundVersion ==
    (VFile.exists /\ WellFormed(VLines) /\ BoundVersion # Unbound) =>
        /\ InSeq("ret_version", events) => args["version"] = BoundVersion
        /\ pc = "L19" => version = BoundVersion
        /\ pc = "aborted" => raisedIn # "_load_version"

C2_Witness ==
    /\ InSeq("ret_version", events)
    /\ Len(VLines) = 2
    /\ VLines[1] = Assign("__version__", V2)
    /\ VLines[2].target # "__version__"
    /\ args["version"] = V2

\* C3: when version.py executes without error but binds no __version__,
\* _load_version raises KeyError: it never returns, and the initial empty
\* string never becomes the version.
C3_MissingVersionBinding ==
    (VFile.exists /\ WellFormed(VLines) /\ "__version__" \notin Targets(VLines)) =>
        /\ ~InSeq("ret_version", events)
        /\ pc \notin {"L19", "L28", "done"}
        /\ pc = "aborted" => exc = "KeyError" /\ raisedIn = "_load_version"
        /\ registered = <<>>

C3_Witness ==
    /\ pc = "aborted"
    /\ exc = "KeyError"
    /\ Len(VLines) = 2
    /\ version = <<>>

\* C4: a loader whose file is absent raises FileNotFoundError: the file is
\* never opened or read, and the run ends with that error raised in that
\* loader.
C4_MissingFile ==
    /\ ~VFile.exists =>
          /\ ~InSeq("open_version", events)
          /\ pc \notin {"L16", "L17", "L14exit", "L19"}
          /\ pc = "aborted" =>
                exc = "FileNotFoundError" /\ raisedIn = "_load_version"
    /\ ~RFile.exists =>
          /\ ~InSeq("open_readme", events)
          /\ pc \notin {"L25", "L24exit", "L28", "done"}
          /\ (pc = "aborted" /\ InSeq("ret_version", events)) =>
                exc = "FileNotFoundError" /\ raisedIn = "_load_description"

C4_Witness ==
    /\ pc = "aborted"
    /\ VFile.exists
    /\ ~RFile.exists
    /\ exc = "FileNotFoundError"
    /\ raisedIn = "_load_description"

\* C5 as stated: what _load_description returns is the README byte for
\* byte, carriage returns included.
C5_ByteIdentical ==
    InSeq("ret_description", events) => args["long_description"] = RFile.data

\* C5, amended: for a README that decodes in the locale's encoding,
\* _load_description returns, and returns the README with universal
\* newlines: every CR LF pair and every lone CR is one LF, every other byte
\* is unchanged.  The result holds no CR, and equals the file byte for byte
\* when the file holds none.
C5_UniversalNewlines ==
    /\ InSeq("ret_description", events) =>
          LET d == RFile.data
              t == args["long_description"]
          IN  /\ NewlinesNormalised(d, t)
              /\ ~InSeq("CR", t)
              /\ ~InSeq("CR", d) => t = d
    /\ (RFile.exists /\ Decodes(RFile.data) /\ pc = "aborted") =>
          raisedIn # "_load_description"

C5_Witness ==
    /\ InSeq("ret_description", events)
    /\ RFile.data = <<"CR", "LF">>
    /\ args["long_description"] = <<"LF">>

\* C6 as stated: the metadata setup() receives has the fixed name and
\* requirements, version X and the README's content D itself.
C6_MetadataVerbatim ==
    \A i \in 1..Len(registered) :
        /\ registered[i].name = <<"mlserver", "-", "mlflow">>
        /\ registered[i].version = BoundVersion
        /\ registered[i].long_description = RFile.data
        /\ registered[i].install_requires = << <<"mlserver">>, <<"mlflow">> >>

\* C6, amended: the metadata setup() receives has name "mlserver-mlflow",
\* version X, the requirements ["mlserver", "mlflow"] in that order, and as
\* long_description D with its CR LF pairs and lone CRs read as LF; the
\* fixed fields are the same whatever the two files hold.
C6_Metadata ==
    \A i \in 1..Len(registered) :
        /\ registered[i].name = <<"mlserver", "-", "mlflow">>
        /\ registered[i].version = BoundVersion
        /\ NewlinesNormalised(RFile.data, registered[i].long_description)
        /\ registered[i].install_requires = << <<"mlserver">>, <<"mlflow">> >>
        /\ registered[i].url = <<"https://github.com/SeldonIO/MLServer.git">>
        /\ registered[i].license = <<"Apache 2.0">>
        /\ registered[i].long_description_content_type = <<"text/markdown">>

C6_Witness ==
    /\ pc = "done"
    /\ Last(registered).version = V2
    /\ InSeq("CR", RFile.data)
    /\ \E i \in 1..Len(VLines) : VLines[i].target = "PKG_NAME"

\* C7: every run against the same filesystem ends the same way: the same
\* metadata registered, or the same error raised in the same loader.
C7_Idempotent ==
    /\ \A i, j \in 1..Len(outcomes) : outcomes[i] = outcomes[j]
    /\ (pc \in {"done", "aborted"} /\ outcomes # <<>>) => Outcome = outcomes[1]

C7_Witness ==
    /\ pc = "done"
    /\ Len(outcomes) >= 1
    /\ outcomes[1].meta = <<Last(registered)>>

\* C8: within a run the version is resolved before the README is opened,
\* both loaders return before setup() is called, and setup() is called at
\* most once; when version resolution fails the README is not opened and
\* the error is the version resolver's, whatever the README's state.
C8_Ordering ==
    /\ Before("ret_version", "open_readme")
    /\ Before("ret_version", "ret_description")
    /\ Before("ret_description", "setup")
    /\ Cardinality({i \in 1..Len(events) : events[i] = "setup"}) <= 1
    /\ ( \/ ~VFile.exists
         \/ ~ValidSource(VLines)
         \/ "__version__" \notin Targets(VLines) ) =>
            /\ ~InSeq("open_readme", events)
            /\ pc = "aborted" => raisedIn = "_load_version"

C8_Witness ==
    /\ pc = "aborted"
    /\ VFile.exists
    /\ ~ValidSource(VLines)
    /\ ~RFile.exists
    /\ raisedIn = "_load_version"

\* C9: a file is open only inside the with block that opened it: none is
\* open once a loader has returned or raised, none when setup() is called
\* or the run has ended, and never two at once.
C9_HandlesReleased ==
    /\ Cardinality(OpenHandles) <= 1
    /\ pc \in {"L16", "L17", "L14exit"} => OpenHandles = {version_path}
    /\ pc \in {"L25", "L24exit"} => OpenHandles = {readme_path}
    /\ pc \notin {"L16", "L17", "L14exit", "L25", "L24exit"} => OpenHandles = {}

C9_Witness ==
    /\ pc = "aborted"
    /\ exc = "UnicodeDecodeError"
    /\ raisedIn = "_load_version"
    /\ version_path \in DOMAIN handles
    /\ handles[version_path].closed

\* C10: the assignments of version.py go into version_module only, which
\* holds nothing but them: once lines 6-8 have run, the script's own
\* ROOT_PATH, PKG_NAME and PKG_PATH keep their values, the README is read
\* from the script's directory and the name given to setup() is the
\* script's, also when version.py assigns those names.
C10_Isolated ==
    /\ pc # "L6" => ns.script = ScriptGlobals
    /\ (pc = "L17" /\ WellFormed(VLines)) =>
          DOMAIN ns.version_module = Targets(VLines) \cup {"__builtins__"}
    /\ pc \in {"L24", "L25", "L24exit"} => readme_path = ReadmePath
    /\ \A i \in 1..Len(registered) :
          registered[i].name = <<"mlserver", "-", "mlflow">>

C10_Witness ==
    /\ pc = "done"
    /\ Len(VLines) = 2
    /\ VLines[1] = Assign("PKG_NAME", <<"evil">>)
    /\ "PKG_NAME" \in DOMAIN ns.version_module
    /\ ns.version_module["PKG_NAME"] = <<"evil">>

====
